---- MODULE Spec2Model ----
(***************************************************************************)
(* A model of the wiki-info library (src/src/wiki_info.rs): the two text   *)
(* cleaners, the term-frequency vector space and the cosine / argmax       *)
(* similarity search.                                                      *)
(*                                                                         *)
(* Strings are sequences of characters; a character is a one-character     *)
(* string, and the one non-ASCII letter and the one non-ASCII space the    *)
(* model draws are named by their code points ("U+00E9", "U+00A0").        *)
(*                                                                         *)
(* An f64 is modelled exactly: a value that is a quotient of integers is   *)
(* an extended fraction [n, d] (d = 0 encodes the IEEE specials: n = 0 is  *)
(* NaN, n = +-1 is +-infinity); a value that went through sqrt is a signed *)
(* square root [sgn, sq].  Rounding and signed zeros are not modelled.     *)
(***************************************************************************)
EXTENDS Integers, Sequences, FiniteSets, TLC

VARIABLES
    pc,                  \* "idle", or the position inside get_most_similar_page
    call,                \* the library call performed, with its arguments
    ret,                 \* the value that call returned
    vocab,               \* local `vocab` of the similarity functions
    primary_vec,         \* local `primary_vec` of get_most_similar_page
    page_index,          \* loop counter of get_most_similar_page
    most_similar_index,  \* local `most_similar_index`
    best_similarity      \* local `best_similarity`

vars == <<pc, call, ret, vocab, primary_vec, page_index, most_similar_index,
          best_similarity>>

(***************************************************************************)
(* Characters and strings                                                  *)
(***************************************************************************)
LowerSeq == <<"a","b","c","d","e","f","g","h","i","j","k","l","m",
              "n","o","p","q","r","s","t","u","v","w","x","y","z">>
UpperSeq == <<"A","B","C","D","E","F","G","H","I","J","K","L","M",
              "N","O","P","Q","R","S","T","U","V","W","X","Y","Z">>

\* char::is_whitespace / regex \s (the White_Space property), as far as drawn
White_Space == {" ", "\t", "\n", "\r", "U+00A0"}

NonAscii == {"U+00E9", "U+00A0"}

is_ascii(word) == \A i \in 1..Len(word) : word[i] \notin NonAscii

\* char::is_alphabetic; only ever asked of words that passed is_ascii
is_alphabetic(c) ==
    \/ \E i \in 1..26 : LowerSeq[i] = c \/ UpperSeq[i] = c
    \/ c = "U+00E9"

to_ascii_lowercase(word) ==
    [i \in 1..Len(word) |->
        IF \E k \in 1..26 : UpperSeq[k] = word[i]
        THEN LowerSeq[CHOOSE k \in 1..26 : UpperSeq[k] = word[i]]
        ELSE word[i]]

RECURSIVE split_from(_, _, _, _)
split_from(s, i, cur, acc) ==
    IF i > Len(s)
    THEN IF cur = <<>> THEN acc ELSE Append(acc, cur)
    ELSE IF s[i] \in White_Space
         THEN split_from(s, i + 1, <<>>,
                         IF cur = <<>> THEN acc ELSE Append(acc, cur))
         ELSE split_from(s, i + 1, Append(cur, s[i]), acc)

\* str::split_whitespace: the maximal runs of non-whitespace characters
split_whitespace(s) == split_from(s, 1, <<>>, <<>>)

RECURSIVE trim_start(_)
trim_start(s) ==
    IF s # <<>> /\ Head(s) \in White_Space THEN trim_start(Tail(s)) ELSE s

RECURSIVE trim_end(_)
trim_end(s) ==
    IF s # <<>> /\ s[Len(s)] \in White_Space
    THEN trim_end(SubSeq(s, 1, Len(s) - 1)) ELSE s

\* str::trim
trim(s) == trim_end(trim_start(s))

\* does pat occur in s at position i
matches_at(s, pat, i) ==
    /\ i + Len(pat) - 1 <= Len(s)
    /\ \A k \in 1..Len(pat) : s[i + k - 1] = pat[k]

RECURSIVE replace_from(_, _, _, _, _)
replace_from(s, from, to, i, acc) ==
    IF i > Len(s) THEN acc
    ELSE IF matches_at(s, from, i)
         THEN replace_from(s, from, to, i + Len(from), acc \o to)
         ELSE replace_from(s, from, to, i + 1, Append(acc, s[i]))

\* str::replace: every non-overlapping match, left to right, in one pass
replace(s, from, to) == replace_from(s, from, to, 1, <<>>)

(***************************************************************************)
(* clean_meta_content                                                      *)
(***************************************************************************)
RECURSIVE collapse_from(_, _, _)
collapse_from(s, i, acc) ==
    IF i > Len(s) THEN acc
    ELSE IF s[i] \in White_Space
         THEN collapse_from(s, i + 1,
                  IF i > 1 /\ s[i - 1] \in White_Space
                  THEN acc ELSE Append(acc, " "))
         ELSE collapse_from(s, i + 1, Append(acc, s[i]))

\* re_whitespace.replace_all(input, " "): each maximal \s+ run becomes " "
replace_whitespace(s) == collapse_from(s, 1, <<>>)

\* least index >= i at which s holds c, or 0
first_index(s, c, i) ==
    IF \E j \in i..Len(s) : s[j] = c
    THEN CHOOSE j \in i..Len(s) :
            s[j] = c /\ \A k \in i..(j - 1) : s[k] # c
    ELSE 0

css_prefix == <<".", "m", "w", "-">>

\* end of the match of \.mw-.*?\{.*?\} that starts at i, or 0: both
\* quantifiers are lazy, so the match runs to the first "{" after the prefix
\* and to the first "}" after that.  ("." refuses only "\n", which
\* replace_whitespace has already turned into " ".)
css_match_end(s, i) ==
    IF ~matches_at(s, css_prefix, i) THEN 0
    ELSE LET open == first_index(s, "{", i + 4)
         IN  IF open = 0 THEN 0 ELSE first_index(s, "}", open + 1)

RECURSIVE remove_css_from(_, _, _)
remove_css_from(s, i, acc) ==
    IF i > Len(s) THEN acc
    ELSE IF css_match_end(s, i) # 0
         THEN remove_css_from(s, css_match_end(s, i) + 1, acc)
         ELSE remove_css_from(s, i + 1, Append(acc, s[i]))

\* re_css.replace_all(text, "")
remove_css(s) == remove_css_from(s, 1, <<>>)

clean_meta_content(input) ==
    LET cleaned_text == replace_whitespace(input)
        cleaned_text_no_css == remove_css(cleaned_text)
        clean_text_no_symbols ==
            replace(replace(cleaned_text_no_css, <<"(", ")">>, <<>>),
                    <<"[", "]">>, <<>>)
    IN  trim(clean_text_no_symbols)

(***************************************************************************)
(* clean_document                                                          *)
(***************************************************************************)
\* the stop-word list lives in the module stop_words, which wiki_info.rs
\* imports; the members the specification and the tests name
STOP_WORDS == { <<"t","h","e">>, <<"a","n","d">>, <<"a">> }

Page(title, links, content) ==
    [title |-> title, links |-> links, content |-> content]

RECURSIVE clean_words(_, _, _)
clean_words(words, i, results) ==
    IF i > Len(words) THEN results
    ELSE LET word == trim(words[i])
             lower == to_ascii_lowercase(word)
         IN  IF /\ is_ascii(word)
                /\ \A k \in 1..Len(word) : is_alphabetic(word[k])
                /\ lower \notin STOP_WORDS
             THEN clean_words(words, i + 1,
                              (results \o to_ascii_lowercase(lower)) \o <<" ">>)
             ELSE clean_words(words, i + 1, results)

RECURSIVE clean_words_case_sensitive(_, _, _)
clean_words_case_sensitive(words, i, results) ==
    IF i > Len(words) THEN results
    ELSE LET word == trim(words[i])
         IN  IF /\ is_ascii(word)
                /\ \A k \in 1..Len(word) : is_alphabetic(word[k])
                /\ word \notin STOP_WORDS
             THEN clean_words_case_sensitive(words, i + 1,
                      (results \o to_ascii_lowercase(word)) \o <<" ">>)
             ELSE clean_words_case_sensitive(words, i + 1, results)

\* clean_document with the stop-word test made before the lowercasing
clean_document_case_sensitive(page) ==
    Page(page.title, page.links,
         clean_words_case_sensitive(split_whitespace(page.content), 1, <<>>))

clean_document(page) ==
    Page(page.title, page.links,
         clean_words(split_whitespace(page.content), 1, <<>>))

(***************************************************************************)
(* process_content                                                         *)
(***************************************************************************)
\* the nodes of a parsed tree: text, element (href is <<>> when the
\* attribute is absent, else <<value>>), and any other node (a comment)
TextNode(text) == [kind |-> "text", text |-> text]

Element(name, href, children) ==
    [kind |-> "element", name |-> name, href |-> href, children |-> children]

CommentNode == [kind |-> "comment"]

HyperLink(title, outlink) == [title |-> title, outlink |-> outlink]

starts_with(s, prefix) == matches_at(s, prefix, 1)

wiki_prefix == <<"/","w","i","k","i","/">>

origin == <<"h","t","t","p","s",":","/","/","e","n",".","w","i","k","i",
            "p","e","d","i","a",".","o","r","g">>

RECURSIVE element_text(_, _)
\* elem.text().collect::<String>(): the descendant text nodes of the
\* children from the i-th on, in document order
element_text(children, i) ==
    IF i > Len(children) THEN <<>>
    ELSE LET node == children[i]
             here == IF node.kind = "text" THEN node.text
                     ELSE IF node.kind = "element"
                          THEN element_text(node.children, 1)
                          ELSE <<>>
         IN  here \o element_text(children, i + 1)

\* the anchor branch with the test of the prefix left out
anchor_links_any_href(elem, links) ==
    IF elem.href = <<>> THEN links
    ELSE Append(links, HyperLink(element_text(elem.children, 1),
                                 origin \o elem.href[1]))

\* the branch `elem.value().name() == "a"`
anchor_links(elem, links) ==
    IF elem.href = <<>> THEN links
    ELSE LET cur_outline == elem.href[1]
         IN  IF ~starts_with(cur_outline, wiki_prefix) THEN links
             ELSE Append(links, HyperLink(element_text(elem.children, 1),
                                          origin \o cur_outline))

RECURSIVE process_content_recursive(_, _, _)
\* the loop over element.children() from the i-th child on; acc holds
\* raw_content and links
process_content_recursive(element, i, acc) ==
    IF i > Len(element.children) THEN acc
    ELSE LET node == element.children[i]
             after ==
                 IF node.kind = "text"
                 THEN [acc EXCEPT !.raw_content = @ \o node.text]
                 ELSE IF node.kind = "element"
                      THEN IF node.name = "a"
                           THEN [acc EXCEPT !.links = anchor_links(node, @)]
                           ELSE process_content_recursive(node, 1, acc)
                      ELSE acc
         IN  process_content_recursive(element, i + 1, after)

process_content(element, page_title) ==
    LET walked == process_content_recursive(
                      element, 1, [raw_content |-> <<>>, links |-> <<>>])
        cleaned_content == clean_meta_content(walked.raw_content)
    IN  Page(trim(page_title), walked.links, cleaned_content)

(***************************************************************************)
(* f64 arithmetic                                                          *)
(***************************************************************************)
Abs(x) == IF x < 0 THEN -x ELSE x

Sign(x) == IF x > 0 THEN 1 ELSE IF x < 0 THEN -1 ELSE 0

RECURSIVE GCD(_, _)
GCD(a, b) == IF b = 0 THEN a ELSE GCD(b, a % b)

\* the f64 n/d, in lowest terms; d = 0 gives NaN (n = 0) or +-infinity
Frac(n, d) ==
    IF d = 0 THEN [n |-> Sign(n), d |-> 0]
    ELSE LET g == GCD(Abs(n), Abs(d))
         IN  [n |-> (Sign(d) * n) \div g, d |-> Abs(d) \div g]

NaN == Frac(0, 0)
Zero == Frac(0, 1)

is_nan(x) == x.n = 0 /\ x.d = 0

f_mul(a, b) == Frac(a.n * b.n, a.d * b.d)

f_add(a, b) ==
    IF a.d = 0 /\ b.d = 0
    THEN IF a.n = b.n THEN a ELSE NaN
    ELSE Frac(a.n * b.d + b.n * a.d, a.d * b.d)

\* IEEE division: x/0 is an infinity, 0/0 and inf/inf are NaN
f_div(a, b) ==
    IF b.n = 0 THEN Frac(a.n * b.d, 0)
    ELSE Frac(a.n * b.d * Sign(b.n), a.d * Abs(b.n))

\* a > b on fractions; false when either side is NaN
f_gt(a, b) == ~is_nan(a) /\ ~is_nan(b) /\ a.n * b.d > b.n * a.d

\* a value sgn * sqrt(sq): what sqrt, and arithmetic after it, produce
Root(sgn, sq) == [sgn |-> sgn, sq |-> sq]

\* a fraction seen as such a value
as_root(x) == Root(Sign(x.n), f_mul(x, x))

\* f64::sqrt: NaN for NaN and for a negative argument
sqrt(x) == IF x.n < 0 THEN Root(0, NaN) ELSE Root(Sign(x.n), x)

r_mul(a, b) == Root(a.sgn * b.sgn, f_mul(a.sq, b.sq))

r_div(a, b) == Root(a.sgn * b.sgn, f_div(a.sq, b.sq))

r_is_nan(a) == is_nan(a.sq)

\* the f64 comparison a > b; false when either side is NaN
r_gt(a, b) ==
    /\ ~r_is_nan(a)
    /\ ~r_is_nan(b)
    /\ \/ a.sgn > b.sgn
       \/ a.sgn = b.sgn /\ a.sgn = 1 /\ f_gt(a.sq, b.sq)
       \/ a.sgn = b.sgn /\ a.sgn = -1 /\ f_gt(b.sq, a.sq)

\* the f64 comparison a == b; false when either side is NaN
r_eq(a, b) == ~r_is_nan(a) /\ ~r_is_nan(b) /\ a = b

(***************************************************************************)
(* cosine_sim                                                              *)
(***************************************************************************)
Min(a, b) == IF a < b THEN a ELSE b

RECURSIVE sum(_, _)
\* Iterator::sum over the first k elements; the additions are exact, so the
\* order in which the parallel reduction performs them does not show
sum(xs, k) == IF k = 0 THEN Zero ELSE f_add(sum(xs, k - 1), xs[k])

cosine_sim(vec1, vec2) ==
    LET zipped == Min(Len(vec1), Len(vec2))
        dot_product == sum([i \in 1..zipped |-> f_mul(vec1[i], vec2[i])], zipped)
        magnitude1 ==
            sqrt(sum([i \in 1..Len(vec1) |-> f_mul(vec1[i], vec1[i])], Len(vec1)))
        magnitude2 ==
            sqrt(sum([i \in 1..Len(vec2) |-> f_mul(vec2[i], vec2[i])], Len(vec2)))
    IN  r_div(as_root(dot_product), r_mul(magnitude1, magnitude2))

(***************************************************************************)
(* The shared vocabulary and page_to_vec                                   *)
(***************************************************************************)
EmptyMap == [x \in {} |-> 0]

\* vocab.insert(word, vocab_len): a repeated word takes a new index
vocab_insert_overwrite(v, word) ==
    LET vocab_len == Cardinality(DOMAIN v)
    IN  (word :> vocab_len) @@ v

\* vocab.entry(word).or_insert(vocab_len), with vocab_len = vocab.len()
vocab_insert(v, word) ==
    LET vocab_len == Cardinality(DOMAIN v)
    IN  IF word \in DOMAIN v THEN v ELSE v @@ (word :> vocab_len)

RECURSIVE vocab_insert_words(_, _, _)
vocab_insert_words(v, words, i) ==
    IF i > Len(words) THEN v
    ELSE vocab_insert_words(vocab_insert(v, words[i]), words, i + 1)

RECURSIVE vocab_of_pages(_, _, _)
\* the vocabulary loop: the pages in order, each page's cleaned words in order
vocab_of_pages(v, ps, i) ==
    IF i > Len(ps) THEN v
    ELSE vocab_of_pages(
             vocab_insert_words(
                 v, split_whitespace(clean_document(ps[i]).content), 1),
             ps, i + 1)

RECURSIVE count_words(_, _, _)
\* *word_count.entry(word).or_insert(0) += 1
count_words(wc, words, i) ==
    IF i > Len(words) THEN wc
    ELSE count_words(
             IF words[i] \in DOMAIN wc
             THEN [wc EXCEPT ![words[i]] = @ + 1]
             ELSE wc @@ (words[i] :> 1),
             words, i + 1)

RECURSIVE scatter(_, _, _, _, _)
\* the loop over word_count; with a one-to-one vocabulary no two words write
\* the same entry, so the map's iteration order does not show
scatter(vector, todo, word_count, v, total_words) ==
    IF todo = {} THEN vector
    ELSE LET word == CHOOSE w \in todo : TRUE
         IN  scatter(
                 IF word \in DOMAIN v
                 THEN [vector EXCEPT ![v[word] + 1] =
                          f_div(Frac(word_count[word], 1), total_words)]
                 ELSE vector,
                 todo \ {word}, word_count, v, total_words)

\* page_to_vec dividing by the vocabulary's size
page_to_vec_over_vocab_len(page, v) ==
    LET content == clean_document(page).content
        words == split_whitespace(content)
        word_count == count_words(EmptyMap, words, 1)
        total_words == Frac(Cardinality(DOMAIN v), 1)
        vector == [i \in 1..Cardinality(DOMAIN v) |-> Zero]
    IN  scatter(vector, DOMAIN word_count, word_count, v, total_words)

\* page_to_vec filling every vocabulary entry with count / total_words
page_to_vec_divide_all(page, v) ==
    LET content == clean_document(page).content
        words == split_whitespace(content)
        word_count == count_words(EmptyMap, words, 1)
        total_words == Frac(Len(words), 1)
    IN  [i \in 1..Cardinality(DOMAIN v) |->
            LET word == CHOOSE w \in DOMAIN v : v[w] = i - 1
            IN  f_div(Frac(IF word \in DOMAIN word_count
                           THEN word_count[word] ELSE 0, 1),
                      total_words)]

page_to_vec(page, v) ==
    LET content == clean_document(page).content
        words == split_whitespace(content)
        word_count == count_words(EmptyMap, words, 1)
        total_words == Frac(Len(words), 1)
        vector == [i \in 1..Cardinality(DOMAIN v) |-> Zero]
    IN  scatter(vector, DOMAIN word_count, word_count, v, total_words)

\* the vocabulary get_page_similarity builds before it vectorises
get_page_similarity_vocab(page1, page2) ==
    vocab_of_pages(EmptyMap, <<page1, page2>>, 1)

get_page_similarity(page1, page2) ==
    LET v == get_page_similarity_vocab(page1, page2)
        vec1 == page_to_vec(page1, v)
        vec2 == page_to_vec(page2, v)
    IN  cosine_sim(vec1, vec2)

\* the vocabulary get_most_similar_page builds: primary_page, then pages
get_most_similar_page_vocab(primary_page, pages) ==
    vocab_of_pages(EmptyMap, <<primary_page>> \o pages, 1)

\* let mut best_similarity: f64 = -1.0
initial_best_similarity == Root(-1, Frac(1, 1))

(***************************************************************************)
(* The inputs the calls are made with                                      *)
(***************************************************************************)
MaxPages == 3      \* candidate pages handed to get_most_similar_page
MaxDocWords == 2   \* words in a body handed to clean_document
MaxChunks == 4     \* fragments in a text handed to clean_meta_content
MaxVecLen == 2     \* length of the vectors handed to cosine_sim
MaxNodes == 2      \* children of the root handed to process_content

SeqsUpTo(S, n) == UNION { [1..k -> S] : k \in 0..n }

RECURSIVE concat(_, _, _)
\* the strings of ss one after the other, sep between two of them
concat(ss, sep, i) ==
    IF i > Len(ss) THEN <<>>
    ELSE IF i = Len(ss) THEN ss[i]
    ELSE (ss[i] \o sep) \o concat(ss, sep, i + 1)

W_the == <<"t","h","e">>
W_cat == <<"c","a","t">>
W_Cat == <<"C","a","t">>
W_dog == <<"d","o","g">>
W_fox == <<"f","o","x">>

\* bodies for the similarity calls: one that cleans to nothing, bodies that
\* differ as text and agree as term frequencies, overlapping and disjoint ones
SimContents ==
    { W_the,
      W_cat,
      concat(<<W_Cat, W_the, W_cat>>, <<" ">>, 1),
      concat(<<W_cat, W_dog>>, <<" ">>, 1),
      concat(<<W_dog, W_cat>>, <<" ">>, 1),
      concat(<<W_dog, W_fox>>, <<" ">>, 1) }

SimPages == { Page(<<"P">>, <<>>, c) : c \in SimContents }

\* words for clean_document: stop-words in several casings, words that
\* contain a stop-word, words with a digit, punctuation, a non-ASCII letter
DocWords ==
    { <<"a">>, <<"A">>, W_the, <<"t","H","e">>, <<"a","n","d">>,
      <<"A","N","D">>, W_cat, W_Cat, <<"b","a","n","d">>,
      <<"c","4","t">>, <<"c","a","t",".">>, <<"c","a","f","U+00E9">> }

DocSeps == { <<" ">>, <<"\n", " ">>, <<"\t">>, <<"U+00A0">> }

DocContents ==
    { (lead \o concat(ws, sep, 1)) \o trail :
        ws \in SeqsUpTo(DocWords, MaxDocWords),
        sep \in DocSeps,
        lead \in {<<>>, <<" ">>},
        trail \in {<<>>, <<"\n">>} }

DocPages == { Page(<<"P">>, <<>>, c) : c \in DocContents }

MetaChunks ==
    { <<"a">>, <<" ">>, <<"\n">>, <<"(">>, <<")">>, <<"[">>, <<"]">>,
      css_prefix, <<"{">>, <<"}">> }

MetaInputs == { concat(cs, <<>>, 1) : cs \in SeqsUpTo(MetaChunks, MaxChunks) }

T_see == TextNode(<<"s","e","e"," ">>)
T_dot == TextNode(<<" ","(",")"," ",".","\n">>)

H_wiki == <<"/","w","i","k","i","/","X">>
H_other == <<"/","n","o","t","-","w","i","k","i","/","x">>

\* an anchor whose text is spread over a nested element, and which holds
\* another anchor
A_nested ==
    Element("a", <<H_wiki>>,
            << Element("b", <<>>, <<TextNode(<<"b","i","g">>)>>),
               TextNode(<<" ","x">>),
               Element("a", <<<<"/","w","i","k","i","/","N">>>>,
                       <<TextNode(<<"n">>)>>) >>)

TreeLeaves ==
    { T_see, T_dot, CommentNode, A_nested,
      Element("a", <<H_wiki>>, <<TextNode(<<"a"," ","l","i","n","k">>)>>),
      Element("a", <<H_other>>, <<TextNode(<<"o","f","f">>)>>),
      Element("a", <<>>, <<TextNode(<<"n","o">>)>>) }

\* the children of a root: leaves, and paragraphs around leaves
TreeNodes ==
    TreeLeaves
    \cup { Element("p", <<>>, <<leaf>>) : leaf \in TreeLeaves }
    \cup { Element("p", <<>>, <<>>), Element("p", <<>>, <<T_see, A_nested>>) }

Trees == { Element("main", <<>>, cs) : cs \in SeqsUpTo(TreeNodes, MaxNodes) }

PageTitles == { <<"T">>, <<" ","T","\n">> }

VecEntries == { Frac(0, 1), Frac(1, 1), Frac(1, 2), Frac(-1, 1) }

\* the one-to-one vocabularies onto 0..n-1 over three tokens
DenseVocabs ==
    { [w \in { ts[i] : i \in 1..Len(ts) } |->
          (CHOOSE i \in 1..Len(ts) : ts[i] = w) - 1] :
        ts \in { t \in SeqsUpTo({W_cat, W_dog, W_fox}, 3) :
                   \A i, j \in 1..Len(t) : i # j => t[i] # t[j] } }

(***************************************************************************)
(* The state machine: one library call per behaviour                       *)
(***************************************************************************)
NoCall == [op |-> "none"]

Init ==
    /\ pc = "idle"
    /\ call = NoCall
    /\ ret = <<>>
    /\ vocab = EmptyMap
    /\ primary_vec = <<>>
    /\ page_index = 0
    /\ most_similar_index = 0
    /\ best_similarity = initial_best_similarity

Locals == <<vocab, primary_vec, page_index, most_similar_index, best_similarity>>

CallProcessContent ==
    /\ pc = "idle" /\ call = NoCall
    /\ \E element \in Trees, page_title \in PageTitles :
        /\ call' = [op |-> "process_content", element |-> element,
                    page_title |-> page_title]
        /\ ret' = process_content(element, page_title)
    /\ UNCHANGED <<pc, Locals>>

CallCleanMetaContent ==
    /\ pc = "idle" /\ call = NoCall
    /\ \E input \in MetaInputs :
        /\ call' = [op |-> "clean_meta_content", input |-> input]
        /\ ret' = clean_meta_content(input)
    /\ UNCHANGED <<pc, Locals>>

CallCleanDocument ==
    /\ pc = "idle" /\ call = NoCall
    /\ \E page \in DocPages :
        /\ call' = [op |-> "clean_document", page |-> page]
        /\ ret' = clean_document(page)
    /\ UNCHANGED <<pc, Locals>>

CallPageToVec ==
    /\ pc = "idle" /\ call = NoCall
    /\ \E page \in SimPages, v \in DenseVocabs :
        /\ call' = [op |-> "page_to_vec", page |-> page, vocab |-> v]
        /\ ret' = page_to_vec(page, v)
    /\ UNCHANGED <<pc, Locals>>

CallCosineSim ==
    /\ pc = "idle" /\ call = NoCall
    /\ \E k \in 0..MaxVecLen :
        \E vec1, vec2 \in [1..k -> VecEntries] :
            /\ call' = [op |-> "cosine_sim", vec1 |-> vec1, vec2 |-> vec2]
            /\ ret' = cosine_sim(vec1, vec2)
    /\ UNCHANGED <<pc, Locals>>

CallGetPageSimilarity ==
    /\ pc = "idle" /\ call = NoCall
    /\ \E page1, page2 \in SimPages :
        /\ call' = [op |-> "get_page_similarity",
                    page1 |-> page1, page2 |-> page2]
        /\ vocab' = get_page_similarity_vocab(page1, page2)
        /\ ret' = get_page_similarity(page1, page2)
    /\ UNCHANGED <<pc, primary_vec, page_index, most_similar_index,
                   best_similarity>>

\* get_most_similar_page up to its loop: the vocabulary, primary_vec and
\* the two locals the loop updates
GetMostSimilarPageStart ==
    /\ pc = "idle" /\ call = NoCall
    /\ \E primary_page \in SimPages, pages \in SeqsUpTo(SimPages, MaxPages) :
        /\ call' = [op |-> "get_most_similar_page",
                    primary_page |-> primary_page, pages |-> pages]
        /\ vocab' = get_most_similar_page_vocab(primary_page, pages)
        /\ primary_vec' = page_to_vec(primary_page, vocab')
    /\ most_similar_index' = 0
    /\ best_similarity' = initial_best_similarity
    /\ page_index' = 0
    /\ pc' = "loop"
    /\ UNCHANGED ret

\* the loop keeping the best on `>=`: the last of several equals wins
GetMostSimilarPageLoop_LastWins ==
    /\ pc = "loop"
    /\ page_index < Len(call.pages)
    /\ LET cur_vec == page_to_vec(call.pages[page_index + 1], vocab)
           cur_sim == cosine_sim(primary_vec, cur_vec)
       IN  IF r_gt(cur_sim, best_similarity) \/ r_eq(cur_sim, best_similarity)
           THEN /\ best_similarity' = cur_sim
                /\ most_similar_index' = page_index
           ELSE UNCHANGED <<best_similarity, most_similar_index>>
    /\ page_index' = page_index + 1
    /\ UNCHANGED <<pc, call, ret, vocab, primary_vec>>

\* one iteration of `for (page_index, page) in pages.iter().enumerate()`
GetMostSimilarPageLoop ==
    /\ pc = "loop"
    /\ page_index < Len(call.pages)
    /\ LET cur_vec == page_to_vec(call.pages[page_index + 1], vocab)
           cur_sim == cosine_sim(primary_vec, cur_vec)
       IN  IF r_gt(cur_sim, best_similarity)
           THEN /\ best_similarity' = cur_sim
                /\ most_similar_index' = page_index
           ELSE UNCHANGED <<best_similarity, most_similar_index>>
    /\ page_index' = page_index + 1
    /\ UNCHANGED <<pc, call, ret, vocab, primary_vec>>

GetMostSimilarPageReturn ==
    /\ pc = "loop"
    /\ page_index = Len(call.pages)
    /\ ret' = most_similar_index
    /\ pc' = "done"
    /\ UNCHANGED <<call, Locals>>

Next ==
    \/ CallProcessContent
    \/ CallCleanMetaContent
    \/ CallCleanDocument
    \/ CallPageToVec
    \/ CallCosineSim
    \/ CallGetPageSimilarity
    \/ GetMostSimilarPageStart
    \/ GetMostSimilarPageLoop
    \/ GetMostSimilarPageReturn

Spec == Init /\ [][Next]_vars

(***************************************************************************)
(* Vocabulary of the properties                                            *)
(***************************************************************************)
\* the tokens of a page's cleaned body
Tokens(page) == split_whitespace(clean_document(page).content)

TokenSet(page) == { Tokens(page)[k] : k \in 1..Len(Tokens(page)) }

RECURSIVE TokensOfPages(_, _)
TokensOfPages(ps, i) ==
    IF i > Len(ps) THEN <<>> ELSE Tokens(ps[i]) \o TokensOfPages(ps, i + 1)

\* the similarity get_most_similar_page computes for candidate j (from 1)
CandidateSim(j) ==
    cosine_sim(page_to_vec(call.primary_page, vocab),
               page_to_vec(call.pages[j], vocab))

Returned == pc = "done" /\ call.op = "get_most_similar_page"

ZeroMagnitude(vec) == \A i \in 1..Len(vec) : vec[i] = Zero

\* 0.98, as a signed square root
PointNineEight == Root(1, Frac(9604, 10000))

(***************************************************************************)
(* C1: get_most_similar_page returns an index i such that no candidate has *)
(* a similarity greater than candidate i's and every candidate before i    *)
(* has a strictly smaller similarity than candidate i.                     *)
(***************************************************************************)
C1_ArgmaxLowestIndex ==
    (Returned /\ Len(call.pages) > 0) =>
        /\ ret \in 0..(Len(call.pages) - 1)
        /\ \A j \in 1..Len(call.pages) :
               ~r_gt(CandidateSim(j), CandidateSim(ret + 1))
        /\ \A j \in 1..ret :
               r_gt(CandidateSim(ret + 1), CandidateSim(j))

(***************************************************************************)
(* C2: cosine_sim of two equal-length vectors of which at least one has    *)
(* zero magnitude is exactly 0.0, never a non-numeric result.              *)
(***************************************************************************)
C2_ZeroMagnitudeGivesZero ==
    (/\ call.op = "cosine_sim"
     /\ Len(call.vec1) = Len(call.vec2)
     /\ ZeroMagnitude(call.vec1) \/ ZeroMagnitude(call.vec2)) =>
        /\ ~r_is_nan(ret)
        /\ r_eq(ret, as_root(Zero))

(***************************************************************************)
(* C3: a candidate with the same body text as the reference has a          *)
(* similarity above 0.98, in get_page_similarity and in                    *)
(* get_most_similar_page, and the latter returns the lowest index whose    *)
(* similarity equals that candidate's.                                     *)
(***************************************************************************)
C3_IdenticalBodyWins ==
    /\ (/\ call.op = "get_page_similarity"
        /\ call.page1.content = call.page2.content) =>
           r_gt(ret, PointNineEight)
    /\ Returned =>
           \A j \in 1..Len(call.pages) :
               call.pages[j].content = call.primary_page.content =>
                   /\ r_gt(CandidateSim(j), PointNineEight)
                   /\ ret + 1 \in 1..j
                   /\ r_eq(CandidateSim(ret + 1), CandidateSim(j))
                   /\ \A k \in 1..ret :
                          ~r_eq(CandidateSim(k), CandidateSim(j))

\* C3 as it holds: the same, for a reference whose cleaned body has at
\* least one token
C3_NonEmptyIdenticalBodyWins ==
    /\ (/\ call.op = "get_page_similarity"
        /\ call.page1.content = call.page2.content
        /\ Tokens(call.page1) # <<>>) =>
           r_gt(ret, PointNineEight)
    /\ (Returned /\ Tokens(call.primary_page) # <<>>) =>
           \A j \in 1..Len(call.pages) :
               call.pages[j].content = call.primary_page.content =>
                   /\ r_gt(CandidateSim(j), PointNineEight)
                   /\ ret + 1 \in 1..j
                   /\ r_eq(CandidateSim(ret + 1), CandidateSim(j))
                   /\ \A k \in 1..ret :
                          ~r_eq(CandidateSim(k), CandidateSim(j))

\* an identical candidate at index 2, tied by the differently worded
\* candidate at index 1, behind a candidate that cleans to nothing
C3_Witness ==
    /\ Returned
    /\ call.primary_page.content = concat(<<W_cat, W_dog>>, <<" ">>, 1)
    /\ Len(call.pages) = 3
    /\ call.pages[1].content = W_the
    /\ call.pages[2].content = concat(<<W_dog, W_cat>>, <<" ">>, 1)
    /\ call.pages[3].content = call.primary_page.content
    /\ ret = 1

(***************************************************************************)
(* C4: when every candidate of a non-empty list has zero similarity to the *)
(* reference (it shares no token with it, which covers an empty cleaned    *)
(* body on either side), get_most_similar_page returns index 0.            *)
(***************************************************************************)
C4_AllZeroReturnsFirst ==
    (/\ Returned
     /\ Len(call.pages) > 0
     /\ \A j \in 1..Len(call.pages) :
            TokenSet(call.pages[j]) \cap TokenSet(call.primary_page) = {}) =>
        ret = 0

(***************************************************************************)
(* C5: clean_meta_content is idempotent: cleaning its own output changes   *)
(* nothing.                                                                *)
(***************************************************************************)
C5_CleanMetaIdempotent ==
    call.op = "clean_meta_content" => clean_meta_content(ret) = ret

\* a word made of ASCII letters only whose lowercase form is no stop-word
KeptToken(word) ==
    /\ \A k \in 1..Len(word) :
           \E i \in 1..26 : word[k] = LowerSeq[i] \/ word[k] = UpperSeq[i]
    /\ to_ascii_lowercase(word) \notin STOP_WORDS

\* the tokens a cleaned body is to consist of, in order
ExpectedTokens(content) ==
    LET kept == SelectSeq(split_whitespace(content), KeptToken)
    IN  [k \in 1..Len(kept) |-> to_ascii_lowercase(kept[k])]

(***************************************************************************)
(* C6: the body clean_document produces is exactly the input's             *)
(* whitespace-delimited tokens that are ASCII-alphabetic and not           *)
(* stop-words, lowercased, in order, with one space between consecutive    *)
(* tokens and no other characters.                                         *)
(***************************************************************************)
C6_BodyIsJoinedTokens ==
    call.op = "clean_document" =>
        ret.content = concat(ExpectedTokens(call.page.content), <<" ">>, 1)

(***************************************************************************)
(* C7: whatever the casing of the input, no token of the cleaned body is a *)
(* stop-word (none is "the", "and" or "a"), and a word that only contains  *)
(* a stop-word is kept.                                                    *)
(***************************************************************************)
C7_NoStopWordTokens ==
    call.op = "clean_document" =>
        LET out == split_whitespace(ret.content)
            kept == ExpectedTokens(call.page.content)
        IN  /\ \A k \in 1..Len(out) :
                   /\ out[k] \notin STOP_WORDS
                   /\ out[k] \notin {W_the, <<"a","n","d">>, <<"a">>}
            /\ \A k \in 1..Len(kept) : \E m \in 1..Len(out) : out[m] = kept[k]

C7_Witness ==
    /\ call.op = "clean_document"
    /\ call.page.content =
           concat(<<<<"t","H","e">>, <<"b","a","n","d">>>>, <<" ">>, 1)
    /\ split_whitespace(ret.content) = <<<<"b","a","n","d">>>>

\* the pages the vocabulary of the call is built over, in order
VocabInput ==
    IF call.op = "get_page_similarity"
    THEN <<call.page1, call.page2>>
    ELSE <<call.primary_page>> \o call.pages

\* the position at which t first occurs in toks
FirstOccurrence(toks, t) ==
    CHOOSE k \in 1..Len(toks) :
        toks[k] = t /\ \A m \in 1..(k - 1) : toks[m] # t

(***************************************************************************)
(* C8: the shared vocabulary maps the distinct cleaned tokens one-to-one   *)
(* onto 0..n-1 in order of first occurrence (reference page first, then    *)
(* the other pages in order): a token's index is the number of distinct    *)
(* tokens that occur before its first occurrence.                          *)
(***************************************************************************)
C8_VocabularyFirstOccurrence ==
    call.op \in {"get_page_similarity", "get_most_similar_page"} =>
        LET toks == TokensOfPages(VocabInput, 1)
            n == Cardinality(DOMAIN vocab)
        IN  /\ DOMAIN vocab = { toks[k] : k \in 1..Len(toks) }
            /\ { vocab[t] : t \in DOMAIN vocab } = 0..(n - 1)
            /\ \A t, u \in DOMAIN vocab : vocab[t] = vocab[u] => t = u
            /\ \A t \in DOMAIN vocab :
                   vocab[t] = Cardinality(
                       { toks[m] : m \in 1..(FirstOccurrence(toks, t) - 1) })

C8_Witness ==
    /\ call.op = "get_most_similar_page"
    /\ Len(call.pages) = 2
    /\ vocab = (W_dog :> 0) @@ (W_cat :> 1) @@ (W_fox :> 2)

\* how often t occurs in toks
Occurrences(toks, t) == Cardinality({ k \in 1..Len(toks) : toks[k] = t })

(***************************************************************************)
(* C9: page_to_vec returns a vector as long as the vocabulary whose entry  *)
(* for a vocabulary token is its number of occurrences in the cleaned body *)
(* over the body's token count, 0.0 when the token is absent; tokens of    *)
(* the page that the vocabulary lacks change nothing.                      *)
(***************************************************************************)
C9_TermFrequencies ==
    call.op = "page_to_vec" =>
        LET toks == Tokens(call.page)
        IN  /\ Len(ret) = Cardinality(DOMAIN call.vocab)
            /\ \A t \in DOMAIN call.vocab :
                   ret[call.vocab[t] + 1] =
                       IF Occurrences(toks, t) = 0 THEN Zero
                       ELSE Frac(Occurrences(toks, t), Len(toks))

C9_Witness ==
    /\ call.op = "page_to_vec"
    /\ Tokens(call.page) = <<W_dog, W_fox>>
    /\ call.vocab = (W_cat :> 0) @@ (W_dog :> 1)
    /\ ret = <<Zero, Frac(1, 2)>>

(***************************************************************************)
(* C10: for a page whose cleaned body has no token, page_to_vec returns a  *)
(* vector of the vocabulary's length whose entries are all exactly 0.0:    *)
(* nothing is divided by the zero token count, no entry is NaN.            *)
(***************************************************************************)
C10_EmptyBodyZeroVector ==
    (call.op = "page_to_vec" /\ Tokens(call.page) = <<>>) =>
        /\ Len(ret) = Cardinality(DOMAIN call.vocab)
        /\ \A i \in 1..Len(ret) : ret[i] = Zero /\ ~is_nan(ret[i])

C10_Witness ==
    /\ call.op = "page_to_vec"
    /\ call.page.content = W_the
    /\ Cardinality(DOMAIN call.vocab) = 2
    /\ ret = <<Zero, Zero>>

RECURSIVE ReachedAnchors(_, _)
\* the anchor elements the traversal reaches below the children from the
\* i-th on, in document order: it descends into every element but an anchor
ReachedAnchors(children, i) ==
    IF i > Len(children) THEN <<>>
    ELSE LET node == children[i]
             here == IF node.kind # "element" THEN <<>>
                     ELSE IF node.name = "a" THEN <<node>>
                     ELSE ReachedAnchors(node.children, 1)
         IN  here \o ReachedAnchors(children, i + 1)

\* an anchor that is to yield a link
WikiAnchor(anchor) ==
    /\ anchor.href # <<>>
    /\ Len(anchor.href[1]) >= Len(wiki_prefix)
    /\ SubSeq(anchor.href[1], 1, Len(wiki_prefix)) = wiki_prefix

\* s occurs in t
Occurs(s, t) == \E i \in 1..(Len(t) + 1) : matches_at(t, s, i)

(***************************************************************************)
(* C11: process_content yields exactly one link per anchor the traversal   *)
(* reaches whose href is present and begins with "/wiki/", in document     *)
(* order and without deduplication, its title the concatenated text inside *)
(* the anchor and its outlink "https://en.wikipedia.org" followed by the   *)
(* href; other anchors yield no link.                                      *)
(***************************************************************************)
C11_LinksOfReachedAnchors ==
    call.op = "process_content" =>
        LET wanted == SelectSeq(ReachedAnchors(call.element.children, 1),
                                WikiAnchor)
        IN  /\ Len(ret.links) = Len(wanted)
            /\ \A k \in 1..Len(wanted) :
                   /\ ret.links[k].title =
                          element_text(wanted[k].children, 1)
                   /\ ret.links[k].outlink = origin \o wanted[k].href[1]

\* a paragraph whose anchor spreads its text over a nested element and
\* holds another anchor, followed by an anchor that leaves the wiki
C11_Witness ==
    /\ call.op = "process_content"
    /\ call.element.children =
           << Element("p", <<>>, <<T_see, A_nested>>),
              Element("a", <<H_other>>, <<TextNode(<<"o","f","f">>)>>) >>
    /\ ret.links = << HyperLink(<<"b","i","g"," ","x","n">>,
                                origin \o H_wiki) >>

(***************************************************************************)
(* C12: an anchor is a leaf of the traversal (no link comes from an anchor *)
(* inside an anchor), and the text of every anchor is part of the          *)
(* extracted page's content.                                               *)
(***************************************************************************)
C12_AnchorTextInContent ==
    call.op = "process_content" =>
        LET reached == ReachedAnchors(call.element.children, 1)
        IN  /\ \A k \in 1..Len(ret.links) :
                   \E m \in 1..Len(reached) :
                       /\ reached[m].href # <<>>
                       /\ ret.links[k].outlink = origin \o reached[m].href[1]
            /\ \A m \in 1..Len(reached) :
                   Occurs(clean_meta_content(
                              element_text(reached[m].children, 1)),
                          ret.content)

(***************************************************************************)
(* C13: the body of a page process_content produces, and every output of   *)
(* clean_meta_content, holds no run of more than one whitespace character  *)
(* and no leading or trailing whitespace.                                  *)
(***************************************************************************)
C13_BodyWhitespaceNormalised ==
    LET Normalised(body) ==
            /\ \A i \in 1..(Len(body) - 1) :
                   ~(body[i] \in White_Space /\ body[i + 1] \in White_Space)
            /\ body # <<>> =>
                   body[1] \notin White_Space /\ body[Len(body)] \notin White_Space
    IN  /\ call.op = "clean_meta_content" => Normalised(ret)
        /\ call.op = "process_content" => Normalised(ret.content)

====
